---- MODULE Spec2Model ----
(***************************************************************************)
(* A model of the crawl orchestrator of spidersuite (src/lib/Crawler.js):  *)
(* the set-up sequence of crawl(), the fetch condition, the discovery      *)
(* override, the event handlers and the completion handler, run against a  *)
(* small web.  The collaborators whose code is not in src/ (HashProcessor, *)
(* ErrorHandler, Logger, HtmlValidator, configUtil) and the crawl engine   *)
(* are modelled at their interface.                                        *)
(***************************************************************************)
EXTENDS Integers, Sequences, FiniteSets, Bags, TLC

(***************************************************************************)
(* Bounds of the model.                                                    *)
(***************************************************************************)
\* the most requests of one run that end other than in a fetched document
\* (a failure event, a redirect, a disallowed URL)
MaxFailures == 1
\* the most spool reports the periodic timer prints in one run
MaxSpoolReports == 1

(***************************************************************************)
(* URLs.  A URL is a record of its parts; the path is a sequence of        *)
(* segments.  The empty string stands for a part that is absent (null or   *)
(* undefined in JavaScript: falsy).                                        *)
(***************************************************************************)
Url(scheme, host, port, path) ==
  [scheme |-> scheme, host |-> host, port |-> port, path |-> path]

EmptyUrl == Url("", "", "", <<>>)
\* the placeholder the discovery override puts in place of a mailto entry
NullUrl == Url("null", "", "", <<>>)

SiteHost == "site.test"
ExtHost == "external.example"

RootPage == Url("https:", SiteHost, "", <<>>)
AboutPage == Url("https:", SiteHost, "", <<"about">>)
SecretPage == Url("https:", SiteHost, "", <<"private", "secret">>)
DocsPage == Url("https:", SiteHost, "", <<"public", "docs">>)
ExtPage == Url("https:", ExtHost, "", <<"page">>)
MailA == Url("mailto:", "", "", <<"a@b.com">>)
MailC == Url("MAILTO:", "", "", <<"c@d.com">>)

Pages == {RootPage, AboutPage, SecretPage, DocsPage, ExtPage}

\* a path relative to the root, as configuration and markup write it
Rel(path) == Url("", "", "", path)

(***************************************************************************)
(* Markup.  A document is a title and a sequence of elements; an element   *)
(* has a tag, an id (or none), an href (or none) and the pre, code or svg  *)
(* element it lies under (or none).                                        *)
(***************************************************************************)
Href(target, query, frag) == [target |-> target, query |-> query, frag |-> frag]
NoHref == Href(EmptyUrl, "", "")
\* the target of an href that holds a fragment only, as in href="#top"
SamePage == Url("#", "", "", <<>>)

Elem(tag, id, hasHref, href, under) ==
  [tag |-> tag, id |-> id, hasHref |-> hasHref, href |-> href, under |-> under]
Anchor(href) == Elem("a", "", TRUE, href, "")
AnchorUnder(href, under) == Elem("a", "", TRUE, href, under)
Ident(tag, id) == Elem(tag, id, FALSE, NoHref, "")
IdentUnder(tag, id, under) == Elem(tag, id, FALSE, NoHref, under)

\* the seed page: every fragment it refers to is declared where it points
RootDoc ==
  [title |-> "Welcome",
   body |-> << Ident("h1", "top"),
               Anchor(Href(Rel(<<"about">>), "", "team")),
               Anchor(Href(Rel(<<"about">>), "", "ghost")),
               Anchor(Href(SamePage, "", "top")),
               Anchor(Href(MailA, "", "")),
               Anchor(Href(Rel(<<"private", "secret">>), "", "")),
               AnchorUnder(Href(Rel(<<"about">>), "", "inpre"), "pre"),
               AnchorUnder(Href(Rel(<<"public", "docs">>), "", "incode"), "code") >>]

AboutDoc ==
  [title |-> "Home page",
   body |-> << Ident("h2", "team"),
               IdentUnder("span", "ghost", "code"),
               Anchor(Href(MailA, "", "")),
               Anchor(Href(ExtPage, "", "frag")),
               Anchor(Href(MailC, "", "")),
               AnchorUnder(Href(ExtPage, "", "insvg"), "svg") >>]

\* a page with references that nothing declares
SecretDoc ==
  [title |-> "Home secret",
   body |-> << Ident("div", "s1"),
               Anchor(Href(Rel(<<"about">>), "x=1", "missing")),
               Anchor(Href(AboutPage, "", "missing")),
               Anchor(Href(Rel(<<"public", "docs">>), "", "sec")),
               Anchor(Href(ExtPage, "", "nofrag")) >>]

\* served as text/plain: markup that is never parsed
DocsDoc ==
  [title |-> "Welcome",
   body |-> << Ident("h2", "sec"),
               Anchor(Href(Rel(<<"about">>), "", "plain")),
               Anchor(Href(Rel(<<"private", "secret">>), "", "")) >>]

\* a page of another host
ExtDoc ==
  [title |-> "Welcome",
   body |-> << Ident("h2", "frag"),
               Anchor(Href(AboutPage, "", "offsite")),
               Anchor(Href(SecretPage, "", "")) >>]

\* every id and fragment of the web
Fragments ==
  {"top", "team", "ghost", "inpre", "frag", "insvg", "s1", "missing", "sec",
   "nofrag", "plain", "offsite", "incode"}

DocOf(u) ==
  CASE u = RootPage -> RootDoc
    [] u = AboutPage -> AboutDoc
    [] u = SecretPage -> SecretDoc
    [] u = DocsPage -> DocsDoc
    [] OTHER -> ExtDoc

\* the declared content type, as the sequence of its tokens
ContentTypeOf(u) ==
  CASE u = DocsPage -> <<"text/plain">>
    [] u = AboutPage -> <<"text/html", "; charset=utf-8">>
    [] OTHER -> <<"text/html">>

\* how a request of u can end other than in a fetched document: the events
\* the servers of this web and the engine raise for it
Incidents(u) ==
  CASE u = RootPage -> {"fetcherror", "fetchredirect"}
    [] u = AboutPage -> {"fetch404", "fetchtimeout"}
    [] u = SecretPage -> {"fetchdisallowed", "gziperror"}
    [] u = DocsPage -> {"fetchdataerror", "queueerror"}
    [] OTHER -> {"fetchclienterror", "fetch404"}

\* the queue item the engine hands to the callbacks for the page at u
QueueItem(u) ==
  [url |-> u, host |-> u.host, stateData |-> [contentType |-> ContentTypeOf(u)]]

(***************************************************************************)
(* Configuration.  A list that may be absent is a record of a presence     *)
(* flag and the list.                                                      *)
(***************************************************************************)
List(present, list) == [present |-> present, list |-> list]
Absent == List(FALSE, <<>>)

PrivatePattern == Rel(<<"private", "*">>)
PublicPattern == Rel(<<"public", "*">>)
AboutPattern == Url("https:", SiteHost, "", <<"about">>)

ExcludeChoices == {Absent, List(TRUE, <<>>), List(TRUE, <<PrivatePattern>>)}
IncludeChoices ==
  {Absent, List(TRUE, <<>>), List(TRUE, <<PublicPattern, AboutPattern>>)}
AdditionalPathChoices ==
  {Absent, List(TRUE, <<Rel(<<"private", "secret">>), Rel(<<"about">>)>>)}
TitlePatternChoices == {"", "^Home"}
SpoolIntervalChoices == {0, 100}

\* the pass-through block of engine settings; present = FALSE: no block.
\* start: whether the block has a key named start (a value that is not a
\* function), which injectCrawlerConfig copies onto the engine as any other
EngineSettings(present, ignoreInvalidSSL, filterByDomain) ==
  [present |-> present, ignoreInvalidSSL |-> ignoreInvalidSSL,
   filterByDomain |-> filterByDomain, start |-> FALSE]
\* no block (the engine keeps to the seed's domain), or a block that lets it
\* leave the domain, with or without the certificate bypass, or a block
\* that has a start key as well
EngineSettingsChoices ==
  {EngineSettings(FALSE, FALSE, TRUE), EngineSettings(TRUE, TRUE, FALSE),
   EngineSettings(TRUE, FALSE, FALSE),
   [EngineSettings(TRUE, TRUE, FALSE) EXCEPT !.start = TRUE]}

\* seed URLs as URL.parse splits them: a part that is missing is ""
GoodSeed == [protocol |-> "https:", hostname |-> SiteHost, port |-> "", path |-> "/"]
SeedChoices ==
  {GoodSeed,
   [GoodSeed EXCEPT !.protocol = "", !.hostname = ""],
   [GoodSeed EXCEPT !.hostname = ""],
   [GoodSeed EXCEPT !.path = ""]}

Configs ==
  [strictCiphers : BOOLEAN,
   simplecrawlerConfig : EngineSettingsChoices,
   reportSpoolInterval : SpoolIntervalChoices,
   excludePatterns : ExcludeChoices,
   includePatterns : IncludeChoices,
   additionalPaths : AdditionalPathChoices,
   titlePattern : TitlePatternChoices,
   rootUrl : {EmptyUrl}]

\* the configurations a whole crawl is run under: the cipher and certificate
\* settings, which only initTls reads, are strict together or relaxed together
CrawlConfigs ==
  {c \in Configs :
     /\ c.simplecrawlerConfig.present = c.simplecrawlerConfig.ignoreInvalidSSL
     /\ c.strictCiphers = ~c.simplecrawlerConfig.ignoreInvalidSSL}

(***************************************************************************)
(* Sequences and bags.                                                     *)
(***************************************************************************)
Range(seq) == {seq[i] : i \in 1..Len(seq)}

RECURSIVE SelectSeqBy(_, _)
\* the elements of seq that lie in the set keep, in order
SelectSeqBy(seq, keep) ==
  IF seq = <<>> THEN <<>>
  ELSE IF Head(seq) \in keep
       THEN <<Head(seq)>> \o SelectSeqBy(Tail(seq), keep)
       ELSE SelectSeqBy(Tail(seq), keep)

\* the bag b with one more copy of e
AddCopy(b, e) == b (+) SetToBag({e})

\* every order of the elements of seq
Shuffles(seq) ==
  {p \in [1..Len(seq) -> Range(seq)] : \A e \in Range(seq) :
     Cardinality({i \in 1..Len(seq) : p[i] = e})
       = Cardinality({i \in 1..Len(seq) : seq[i] = e})}

(***************************************************************************)
(* configUtil.getFirstMatchingPattern: the first pattern of the list that  *)
(* matches the candidate URL; a relative pattern is rewritten against the  *)
(* root URL.  A trailing * matches any rest of the path.                   *)
(***************************************************************************)
RECURSIVE Glob(_, _)
Glob(pat, path) ==
  IF pat = <<>> THEN path = <<>>
  ELSE IF Head(pat) = "*" THEN Tail(pat) = <<>>
  ELSE /\ path # <<>>
       /\ Head(pat) = Head(path)
       /\ Glob(Tail(pat), Tail(path))

PatternMatches(pattern, url, rootUrl) ==
  LET abs == IF pattern.host = ""
             THEN [rootUrl EXCEPT !.path = pattern.path]
             ELSE pattern
  IN /\ abs.scheme = url.scheme
     /\ abs.host = url.host
     /\ abs.port = url.port
     /\ Glob(abs.path, url.path)

RECURSIVE getFirstMatchingPattern(_, _, _)
\* EmptyUrl: no pattern matches
getFirstMatchingPattern(patterns, url, rootUrl) ==
  IF patterns = <<>> THEN EmptyUrl
  ELSE IF PatternMatches(Head(patterns), url, rootUrl) THEN Head(patterns)
  ELSE getFirstMatchingPattern(Tail(patterns), url, rootUrl)

\* JavaScript's truthiness of a returned pattern
Truthy(pattern) == pattern # EmptyUrl

(***************************************************************************)
(* initIncludeExcludePatterns.                                             *)
(***************************************************************************)
hasExclude(cfg) == cfg.excludePatterns.present /\ Len(cfg.excludePatterns.list) > 0
hasInclude(cfg) == cfg.includePatterns.present /\ Len(cfg.includePatterns.list) > 0

\* a filter that joins the two tests with || where the code has &&
FetchConditionOr(cfg, url) ==
  LET afterExclude ==
        IF hasExclude(cfg)
        THEN TRUE /\ ~Truthy(getFirstMatchingPattern(
                               cfg.excludePatterns.list, url, cfg.rootUrl))
        ELSE TRUE
      afterInclude ==
        IF hasInclude(cfg)
        THEN afterExclude \/ Truthy(getFirstMatchingPattern(
                                       cfg.includePatterns.list, url, cfg.rootUrl))
        ELSE afterExclude
  IN afterInclude

\* the value the installed fetch condition returns for the candidate url
FetchCondition(cfg, url) ==
  LET afterExclude ==
        IF hasExclude(cfg)
        THEN TRUE /\ ~Truthy(getFirstMatchingPattern(
                               cfg.excludePatterns.list, url, cfg.rootUrl))
        ELSE TRUE
      afterInclude ==
        IF hasInclude(cfg)
        THEN afterExclude /\ Truthy(getFirstMatchingPattern(
                                       cfg.includePatterns.list, url, cfg.rootUrl))
        ELSE afterExclude
  IN afterInclude

(***************************************************************************)
(* The document boundary (cheerio) and the engine's URL handling.          *)
(***************************************************************************)
\* a test that takes every text type for HTML
IsHtmlAnyText(contentType) ==
  Len(contentType) > 0 /\ contentType[1] \in {"text/html", "text/plain"}

\* queueItem.stateData.contentType.indexOf('text/html') === 0
IsHtml(contentType) == Len(contentType) > 0 /\ contentType[1] = "text/html"

\* the target of an href seen from the page at base, without query or fragment
Resolve(target, base) ==
  IF target = SamePage THEN base
  ELSE IF target.scheme = "" THEN [base EXCEPT !.path = target.path]
  ELSE target

\* a removal that removes nothing
RemoveSubtreesKeepsAll(body) == body

\* $('pre,code,svg').remove()
RemoveSubtrees(body) ==
  SelectSeqBy(body, {e \in Range(body) : e.under \notin {"pre", "code", "svg"}})

\* $('a[href]')
AnchorsWithHref(body) ==
  SelectSeqBy(body, {e \in Range(body) : e.tag = "a" /\ e.hasHref})

RECURSIVE LinkTargets(_, _)
LinkTargets(anchors, base) ==
  IF anchors = <<>> THEN <<>>
  ELSE LET h == Head(anchors).href
       IN (IF h.target = SamePage THEN <<>> ELSE <<Resolve(h.target, base)>>)
            \o LinkTargets(Tail(anchors), base)

\* the engine's default discovery: the link targets of the markup, in order
oldDiscoverResources(body, queueItem) ==
  LinkTargets(AnchorsWithHref(body), queueItem.url)

ToLower(token) ==
  CASE token = "MAILTO:" -> "mailto:"
    [] OTHER -> token

\* mailtoMatcher.test(url): /mailto:/i finds mailto: anywhere in the text
mailtoMatcher(url) ==
  \E token \in {url.scheme, url.host} \cup Range(url.path) :
     ToLower(token) = "mailto:"

\* a list that keeps every occurrence
uniqKeepsAll(list) == list

RECURSIVE uniq(_)
\* _.uniq: the first occurrence of every element, in order
uniq(list) ==
  IF list = <<>> THEN <<>>
  ELSE LET front == uniq(SubSeq(list, 1, Len(list) - 1))
           last == list[Len(list)]
       IN IF last \in Range(front) THEN front ELSE Append(front, last)

(***************************************************************************)
(* HashProcessor and HtmlValidator.                                        *)
(***************************************************************************)
\* the entries findSupportedHashes adds to the declared-hash ledger
findSupportedHashes(url, body) ==
  {<<url, e.id>> : e \in {x \in Range(body) : x.id # ""}}

\* the entries registerExpectedHash adds to the expected-hash ledger
registerExpectedHash(href, queueItem) ==
  IF href.frag = "" THEN {}
  ELSE {<<Resolve(href.target, queueItem.url), href.frag>>}

\* the (url, fragment) pairs findErrors reports
findErrors(expected, declared) == expected \ declared

TitleStartsWith(title, word) ==
  CASE title = "Home page" -> word = "Home"
    [] title = "Home secret" -> word = "Home"
    [] OTHER -> FALSE

\* whether getTitleValidationFailure returns a failure
getTitleValidationFailure(titlePattern, doc) ==
  /\ titlePattern = "^Home"
  /\ ~TitleStartsWith(doc.title, "Home")

\* an entry of the error recorder or of the logger
Record(kind, url, detail) == [kind |-> kind, url |-> url, detail |-> detail]

\* the kind ErrorHandler.handleFetchError records for an engine event
FetchErrorKind(event) ==
  CASE event = "gziperror" -> "gzip-error"
    [] event = "fetchtimeout" -> "fetch-timeout"
    [] OTHER -> "fetch-error"

\* Logger.report(): the exit code for the recorded errors
report(errs) == IF errs = EmptyBag THEN 0 ELSE 1

(***************************************************************************)
(* State.                                                                  *)
(***************************************************************************)
VARIABLES
  myUrl,               \* the seed URL, as URL.parse splits it
  config,              \* the spider config
  pc,                  \* the position of crawl()
  tlsCiphers,          \* tls.DEFAULT_CIPHERS
  envRejectUnauthorized, \* process.env.NODE_TLS_REJECT_UNAUTHORIZED
  exitCode,            \* process.exitCode; -1: not set
  spooledReportTimer,  \* the module's timer handle; 0: undefined
  timers,              \* the interval timers that are active
  spoolReports,        \* the spool reports printed so far
  crawler,             \* the engine object
  queued,              \* the URLs in the engine's queue, not yet requested
  spooled,             \* the URLs whose request is open
  fetched,             \* the URLs whose request has ended
  expectedHashes,      \* HashProcessor: the (url, fragment) pairs referenced
  declaredHashes,      \* HashProcessor: the (url, id) pairs declared
  errors,              \* ErrorHandler: the bag of error records
  logged,              \* Logger: the bag of informational entries
  links,               \* Logger.registerLink: the (page, resource) pairs
  returned,            \* the list the discovery override returned last
  discovered,          \* the list the default discovery gave it
  processed,           \* the URLs the discovery override was called for
  lastProcessed,       \* the URL it was called for last; EmptyUrl: none
  lateRegistered,      \* the expected hashes registered after their target was processed
  condCalls,           \* the bag of (url, result) calls of the fetch condition
  findErrorsCalls,     \* the calls of findErrors()
  reportCalls,         \* the calls of report()
  reported,            \* the error records the report held
  completeCalls,       \* the calls the completion handler made, in order
  failures,            \* the failure events raised so far
  raised,              \* the bag of (event, url) pairs of these events
  otherPc              \* the position of a second crawl run of the process

vars ==
  << myUrl, config, pc, tlsCiphers, envRejectUnauthorized, exitCode,
     spooledReportTimer, timers, spoolReports, crawler, queued, spooled,
     fetched, expectedHashes, declaredHashes, errors, logged, links, returned,
     discovered, processed, lastProcessed, lateRegistered, condCalls, findErrorsCalls,
     reportCalls, reported, completeCalls, failures, raised, otherPc >>

processVars == << tlsCiphers, envRejectUnauthorized, exitCode, otherPc >>
timerVars == << spooledReportTimer, timers, spoolReports >>
queueVars == << queued, spooled, fetched >>
ledgerVars == << expectedHashes, declaredHashes, lateRegistered >>
recordVars == << errors, logged, links, condCalls, failures, raised >>
discoveryVars == << returned, discovered, processed, lastProcessed >>
completionVars == << findErrorsCalls, reportCalls, reported, completeCalls >>

\* the engine object before new Simplecrawler(myUrl)
NoCrawler ==
  [created |-> FALSE, host |-> "", initialURL |-> EmptyUrl,
   filterByDomain |-> TRUE, ignoreInvalidSSL |-> FALSE, conditions |-> 0,
   overridden |-> FALSE, handlers |-> {}, startIsFunction |-> TRUE,
   started |-> FALSE]

Init ==
  /\ myUrl \in SeedChoices
  /\ config \in Configs
  /\ myUrl = GoodSeed => config \in CrawlConfigs
  /\ pc = "crawl"
  /\ tlsCiphers = "default"
  /\ envRejectUnauthorized = "unset"
  /\ exitCode = -1
  /\ spooledReportTimer = 0
  /\ timers = {}
  /\ spoolReports = 0
  /\ crawler = NoCrawler
  /\ queued = {}
  /\ spooled = {}
  /\ fetched = {}
  /\ expectedHashes = {}
  /\ declaredHashes = {}
  /\ errors = EmptyBag
  /\ logged = EmptyBag
  /\ links = {}
  /\ returned = <<>>
  /\ discovered = <<>>
  /\ processed = {}
  /\ lastProcessed = EmptyUrl
  /\ lateRegistered = {}
  /\ condCalls = EmptyBag
  /\ findErrorsCalls = 0
  /\ reportCalls = 0
  /\ reported = EmptyBag
  /\ completeCalls = <<>>
  /\ failures = 0
  /\ raised = EmptyBag
  /\ otherPc = "idle"

(***************************************************************************)
(* The engine's queueURL.  A candidate passes the protocol and the domain  *)
(* check, then every fetch condition installed at the time of the call,    *)
(* and is added unless the queue knows it already.                         *)
(***************************************************************************)
\* the function installed by addFetchCondition, with its logger.logIgnore
FetchConditionCallback(cfg, url, log) ==
  LET shouldFetch == FetchCondition(cfg, url)
  IN [result |-> shouldFetch,
      logged |-> IF ~shouldFetch THEN AddCopy(log, Record("ignored", url, ""))
                 ELSE log]

\* q: the queue, the log and the calls of the fetch condition so far
queueURL(url, referrer, q) ==
  LET u == Resolve(url, referrer)
      call == FetchConditionCallback(config, u, q.logged)
  IN IF url = NullUrl \/ u.scheme \notin {"http:", "https:"} THEN q
     ELSE IF crawler.filterByDomain /\ u.host # crawler.host THEN q
     ELSE IF crawler.conditions = 0
     THEN [q EXCEPT !.queued = IF u \in spooled \cup fetched THEN @ ELSE @ \cup {u}]
     ELSE [queued |-> IF call.result /\ u \notin spooled \cup fetched
                      THEN q.queued \cup {u} ELSE q.queued,
           logged |-> call.logged,
           condCalls |-> AddCopy(q.condCalls, [url |-> u, result |-> call.result])]

RECURSIVE queueAll(_, _, _)
queueAll(list, referrer, q) ==
  IF list = <<>> THEN q
  ELSE queueAll(Tail(list), referrer, queueURL(Head(list), referrer, q))

QueueState == [queued |-> queued, logged |-> logged, condCalls |-> condCalls]

(***************************************************************************)
(* crawl(): initCrawler and the set-up calls, one step per call.           *)
(***************************************************************************)
\* a check that forgets the path
ValidSeedNoPathCheck(parsed) == parsed.protocol # "" /\ parsed.hostname # ""

ValidSeed(parsed) ==
  parsed.protocol # "" /\ parsed.hostname # "" /\ parsed.path # ""

\* lines 288-295: URL.parse and the check of the seed
InitCrawler ==
  /\ pc = "crawl"
  /\ pc' = IF ValidSeed(myUrl) THEN "setConfigRootUrl" ELSE "threw"
  /\ UNCHANGED << myUrl, config, processVars, timerVars, crawler, queueVars,
                  ledgerVars, recordVars, discoveryVars, completionVars >>

SetConfigRootUrl ==
  /\ pc = "setConfigRootUrl"
  /\ LET protocolString == IF myUrl.protocol # "" THEN myUrl.protocol ELSE "https:"
         portString == IF myUrl.port # "" THEN myUrl.port ELSE ""
     IN config' = [config EXCEPT
                     !.rootUrl = Url(protocolString, myUrl.hostname, portString, <<>>)]
  /\ pc' = "initTls"
  /\ UNCHANGED << myUrl, processVars, timerVars, crawler, queueVars, ledgerVars,
                  recordVars, discoveryVars, completionVars >>

InitTls ==
  /\ pc = "initTls"
  /\ tlsCiphers' = IF ~config.strictCiphers THEN "ALL" ELSE tlsCiphers
  /\ envRejectUnauthorized' =
       IF config.simplecrawlerConfig.present
          /\ config.simplecrawlerConfig.ignoreInvalidSSL
       THEN "0" ELSE envRejectUnauthorized
  /\ pc' = "newSimplecrawler"
  /\ UNCHANGED << myUrl, config, exitCode, otherPc, timerVars, crawler, queueVars,
                  ledgerVars, recordVars, discoveryVars, completionVars >>

\* line 300: new Simplecrawler(myUrl)
NewSimplecrawler ==
  /\ pc = "newSimplecrawler"
  /\ crawler' = [NoCrawler EXCEPT
                   !.created = TRUE,
                   !.host = myUrl.hostname,
                   !.initialURL = Url(myUrl.protocol, myUrl.hostname, myUrl.port, <<>>)]
  /\ pc' = "initAdditionalPaths"
  /\ UNCHANGED << myUrl, config, processVars, timerVars, queueVars, ledgerVars,
                  recordVars, discoveryVars, completionVars >>

InitAdditionalPaths ==
  /\ pc = "initAdditionalPaths"
  /\ LET paths == IF config.additionalPaths.present
                  THEN config.additionalPaths.list ELSE <<>>
         q == queueAll(paths, crawler.initialURL, QueueState)
     IN /\ queued' = q.queued
        /\ logged' = q.logged
        /\ condCalls' = q.condCalls
  /\ pc' = "initSpool"
  /\ UNCHANGED << myUrl, config, processVars, timerVars, crawler, spooled, fetched,
                  ledgerVars, errors, links, failures, raised, discoveryVars,
                  completionVars >>

\* a handle setInterval has not given out before
NewTimer == CHOOSE t \in 1..(Cardinality(timers) + 2) :
              t \notin timers \cup {spooledReportTimer}

InitSpool ==
  /\ pc = "initSpool"
  /\ IF config.reportSpoolInterval > 0
     THEN /\ spooledReportTimer' = NewTimer
          /\ timers' = timers \cup {NewTimer}
     ELSE UNCHANGED << spooledReportTimer, timers >>
  /\ pc' = "injectCrawlerConfig"
  /\ UNCHANGED << myUrl, config, processVars, spoolReports, crawler, queueVars,
                  ledgerVars, recordVars, discoveryVars, completionVars >>

InjectCrawlerConfig ==
  /\ pc = "injectCrawlerConfig"
  /\ crawler' = IF config.simplecrawlerConfig.present
                THEN [crawler EXCEPT
                        !.filterByDomain = config.simplecrawlerConfig.filterByDomain,
                        !.ignoreInvalidSSL = config.simplecrawlerConfig.ignoreInvalidSSL,
                        !.startIsFunction = ~config.simplecrawlerConfig.start]
                ELSE crawler
  /\ pc' = "initIncludeExcludePatterns"
  /\ UNCHANGED << myUrl, config, processVars, timerVars, queueVars, ledgerVars,
                  recordVars, discoveryVars, completionVars >>

\* lines 88-92 and 123-124: addFetchCondition, if a list has a pattern
InitIncludeExcludePatterns ==
  /\ pc = "initIncludeExcludePatterns"
  /\ crawler' = IF hasExclude(config) \/ hasInclude(config)
                THEN [crawler EXCEPT !.conditions = @ + 1]
                ELSE crawler
  /\ pc' = "initDiscoverResources"
  /\ UNCHANGED << myUrl, config, processVars, timerVars, queueVars, ledgerVars,
                  recordVars, discoveryVars, completionVars >>

\* lines 179-186 and 241-242: the override is put in place
InitDiscoverResources ==
  /\ pc = "initDiscoverResources"
  /\ crawler' = [crawler EXCEPT !.overridden = TRUE]
  /\ pc' = "initErrorHandlers"
  /\ UNCHANGED << myUrl, config, processVars, timerVars, queueVars, ledgerVars,
                  recordVars, discoveryVars, completionVars >>

ErrorEvents ==
  {"fetch404", "fetcherror", "fetchdataerror", "gziperror", "fetchtimeout",
   "fetchclienterror", "queueerror"}

InitErrorHandlers ==
  /\ pc = "initErrorHandlers"
  /\ crawler' = [crawler EXCEPT !.handlers = @ \cup ErrorEvents]
  /\ pc' = "bindHandlers"
  /\ UNCHANGED << myUrl, config, processVars, timerVars, queueVars, ledgerVars,
                  recordVars, discoveryVars, completionVars >>

\* lines 322-356: the crawler.on calls of crawl()
BindHandlers ==
  /\ pc = "bindHandlers"
  /\ crawler' = [crawler EXCEPT
                   !.handlers = @ \cup {"fetchcomplete", "discoverycomplete",
                                        "fetchredirect", "fetchdisallowed",
                                        "complete"}]
  /\ pc' = "start"
  /\ UNCHANGED << myUrl, config, processVars, timerVars, queueVars, ledgerVars,
                  recordVars, discoveryVars, completionVars >>

\* line 358: crawler.start() puts the seed into the queue; the call throws
\* a TypeError if the injected settings put a value that is not a function
\* in the place of start
Start ==
  /\ pc = "start"
  /\ IF crawler.startIsFunction
     THEN /\ crawler' = [crawler EXCEPT !.started = TRUE]
          /\ queued' = IF crawler.initialURL \in spooled \cup fetched
                       THEN queued ELSE queued \cup {crawler.initialURL}
          /\ pc' = "running"
     ELSE /\ pc' = "startThrew"
          /\ UNCHANGED << crawler, queued >>
  /\ UNCHANGED << myUrl, config, processVars, timerVars, spooled, fetched,
                  ledgerVars, recordVars, discoveryVars, completionVars >>

(***************************************************************************)
(* The discovery override, crawler.discoverResources(buf, queueItem).      *)
(* led holds the two ledgers and the error records; the result holds them  *)
(* after the call, the list the default discovery gave (found) and the     *)
(* list before the shuffle (list).                                         *)
(***************************************************************************)
Ledgers == [expected |-> expectedHashes, declared |-> declaredHashes, errors |-> errors]

\* lines 160-169
checkTitle(url, doc, errs) ==
  IF getTitleValidationFailure(config.titlePattern, doc)
  THEN AddCopy(errs, Record("title-mismatch", url, doc.title))
  ELSE errs

\* a loop that registers the hrefs that stay on the page's host only
RegisterAnchorsSameHost(body, queueItem, expected) ==
  expected \cup UNION {registerExpectedHash(a.href, queueItem) :
                         a \in {x \in Range(AnchorsWithHref(body)) :
                                  Resolve(x.href.target, queueItem.url).host
                                    = queueItem.host}}

\* lines 213-217: every a[href] of the body is registered
RegisterAnchors(body, queueItem, expected) ==
  expected \cup UNION {registerExpectedHash(a.href, queueItem) :
                         a \in Range(AnchorsWithHref(body))}

\* lines 223-229
MapMailto(list) ==
  [i \in 1..Len(list) |-> IF mailtoMatcher(list[i]) THEN NullUrl ELSE list[i]]

Untouched(led) == led @@ [found |-> <<>>, list |-> <<>>]

\* an override that collects the declared ids of crawl-host pages only
discoverResourcesDeclareOnHostOnly(doc, queueItem, led) ==
  IF IsHtml(queueItem.stateData.contentType) /\ queueItem.host = crawler.host
  THEN LET declared == led.declared \cup findSupportedHashes(queueItem.url, doc.body)
           errs == IF config.titlePattern # ""
                   THEN checkTitle(queueItem.url, doc, led.errors)
                   ELSE led.errors
           body == RemoveSubtrees(doc.body)
           expected == RegisterAnchors(body, queueItem, led.expected)
           found == oldDiscoverResources(body, queueItem)
       IN [expected |-> expected, declared |-> declared, errors |-> errs,
           found |-> found, list |-> uniq(MapMailto(found))]
  ELSE Untouched(led)

\* an override that keeps a declared id only if a page has referred to it
\* already
discoverResourcesDeclareExpectedOnly(doc, queueItem, led) ==
  IF IsHtml(queueItem.stateData.contentType)
  THEN LET declared == led.declared \cup
                         (findSupportedHashes(queueItem.url, doc.body)
                            \cap led.expected)
       IN IF queueItem.host = crawler.host
          THEN LET errs == IF config.titlePattern # ""
                           THEN checkTitle(queueItem.url, doc, led.errors)
                           ELSE led.errors
                   body == RemoveSubtrees(doc.body)
                   expected == RegisterAnchors(body, queueItem, led.expected)
                   found == oldDiscoverResources(body, queueItem)
               IN [expected |-> expected, declared |-> declared, errors |-> errs,
                   found |-> found, list |-> uniq(MapMailto(found))]
          ELSE Untouched([led EXCEPT !.declared = declared])
  ELSE Untouched(led)

\* an override that checks the title of the pages of every host
discoverResourcesTitleAnyHost(doc, queueItem, led) ==
  IF IsHtml(queueItem.stateData.contentType)
  THEN LET declared == led.declared \cup findSupportedHashes(queueItem.url, doc.body)
           errs == IF config.titlePattern # ""
                   THEN checkTitle(queueItem.url, doc, led.errors)
                   ELSE led.errors
       IN IF queueItem.host = crawler.host
          THEN LET body == RemoveSubtrees(doc.body)
                   expected == RegisterAnchors(body, queueItem, led.expected)
                   found == oldDiscoverResources(body, queueItem)
               IN [expected |-> expected, declared |-> declared, errors |-> errs,
                   found |-> found, list |-> uniq(MapMailto(found))]
          ELSE Untouched([led EXCEPT !.declared = declared, !.errors = errs])
  ELSE Untouched(led)

\* an override that follows the links of the pages of every host
discoverResourcesFollowsOffDomain(doc, queueItem, led) ==
  IF IsHtml(queueItem.stateData.contentType)
  THEN LET declared == led.declared \cup findSupportedHashes(queueItem.url, doc.body)
           body == RemoveSubtrees(doc.body)
           found == oldDiscoverResources(body, queueItem)
       IN IF queueItem.host = crawler.host
          THEN LET errs == IF config.titlePattern # ""
                           THEN checkTitle(queueItem.url, doc, led.errors)
                           ELSE led.errors
                   expected == RegisterAnchors(body, queueItem, led.expected)
               IN [expected |-> expected, declared |-> declared, errors |-> errs,
                   found |-> found, list |-> uniq(MapMailto(found))]
          ELSE [expected |-> led.expected, declared |-> declared,
                errors |-> led.errors, found |-> found,
                list |-> uniq(MapMailto(found))]
  ELSE Untouched(led)

\* an override that removes pre, code and svg before it collects the ids
discoverResourcesPrunesFirst(doc, queueItem, led) ==
  IF IsHtml(queueItem.stateData.contentType)
  THEN LET body == RemoveSubtrees(doc.body)
           declared == led.declared \cup findSupportedHashes(queueItem.url, body)
       IN IF queueItem.host = crawler.host
          THEN LET errs == IF config.titlePattern # ""
                           THEN checkTitle(queueItem.url, doc, led.errors)
                           ELSE led.errors
                   expected == RegisterAnchors(body, queueItem, led.expected)
                   found == oldDiscoverResources(body, queueItem)
               IN [expected |-> expected, declared |-> declared, errors |-> errs,
                   found |-> found, list |-> uniq(MapMailto(found))]
          ELSE Untouched([led EXCEPT !.declared = declared])
  ELSE Untouched(led)

\* an override that registers the references of the pages of every host
discoverResourcesRegistersAnyHost(doc, queueItem, led) ==
  IF IsHtml(queueItem.stateData.contentType)
  THEN LET declared == led.declared \cup findSupportedHashes(queueItem.url, doc.body)
           body == RemoveSubtrees(doc.body)
           expected == RegisterAnchors(body, queueItem, led.expected)
       IN IF queueItem.host = crawler.host
          THEN LET errs == IF config.titlePattern # ""
                           THEN checkTitle(queueItem.url, doc, led.errors)
                           ELSE led.errors
                   found == oldDiscoverResources(body, queueItem)
               IN [expected |-> expected, declared |-> declared, errors |-> errs,
                   found |-> found, list |-> uniq(MapMailto(found))]
          ELSE Untouched([led EXCEPT !.declared = declared, !.expected = expected])
  ELSE Untouched(led)

discoverResources(doc, queueItem, led) ==
  IF IsHtml(queueItem.stateData.contentType)
  THEN LET declared == led.declared \cup findSupportedHashes(queueItem.url, doc.body)
       IN IF queueItem.host = crawler.host
          THEN LET errs == IF config.titlePattern # ""
                           THEN checkTitle(queueItem.url, doc, led.errors)
                           ELSE led.errors
                   body == RemoveSubtrees(doc.body)
                   expected == RegisterAnchors(body, queueItem, led.expected)
                   found == oldDiscoverResources(body, queueItem)
               IN [expected |-> expected, declared |-> declared, errors |-> errs,
                   found |-> found, list |-> uniq(MapMailto(found))]
          ELSE Untouched([led EXCEPT !.declared = declared])
  ELSE Untouched(led)

(***************************************************************************)
(* The engine at work.  Requests end in any order.                         *)
(***************************************************************************)
Running == pc = "running"

\* the engine opens the request of a queued URL
Spool(u) ==
  /\ Running
  /\ u \in queued
  /\ queued' = queued \ {u}
  /\ spooled' = spooled \cup {u}
  /\ UNCHANGED << myUrl, config, pc, processVars, timerVars, crawler, fetched,
                  ledgerVars, recordVars, discoveryVars, completionVars >>

\* a request ends well: the fetchcomplete handler (lines 323-325), the
\* discovery override, the discoverycomplete handler (lines 328-332) and
\* the queueing of the resources returned
FetchComplete(u) ==
  /\ Running
  /\ u \in spooled
  /\ LET item == QueueItem(u)
         d == discoverResources(DocOf(u), item, Ledgers)
     IN /\ expectedHashes' = d.expected
        /\ declaredHashes' = d.declared
        /\ errors' = d.errors
        /\ lateRegistered' = lateRegistered \cup
             {h \in d.expected \ expectedHashes : h[1] \in processed}
        /\ discovered' = d.found
        /\ returned' \in Shuffles(d.list)
        /\ processed' = processed \cup {u}
        /\ lastProcessed' = u
        /\ spooled' = spooled \ {u}
        /\ fetched' = fetched \cup {u}
        /\ links' = IF "discoverycomplete" \in crawler.handlers
                    THEN links \cup {<<u, r>> : r \in Range(returned')}
                    ELSE links
        /\ LET q == queueAll(returned', u,
                             [queued |-> queued,
                              logged |-> AddCopy(logged, Record("success", u, "")),
                              condCalls |-> condCalls])
           IN /\ queued' = q.queued
              /\ logged' = q.logged
              /\ condCalls' = q.condCalls
  /\ UNCHANGED << myUrl, config, pc, processVars, timerVars, crawler, failures,
                  raised, completionVars >>

\* a request that ends other than in a fetched document
Fails(u, event) ==
  /\ Running
  /\ u \in spooled
  /\ event \in Incidents(u)
  /\ failures < MaxFailures

Ended(u) ==
  /\ spooled' = spooled \ {u}
  /\ fetched' = fetched \cup {u}
  /\ failures' = failures + 1
  /\ UNCHANGED << myUrl, config, pc, processVars, timerVars, crawler, queued,
                  ledgerVars, logged, links, condCalls, discoveryVars,
                  completionVars >>

\* the engine raises event for the request of u
Raise(event, u) == raised' = AddCopy(raised, [event |-> event, url |-> u])

\* handlers of which the one of fetchtimeout records nothing
HandleDropsTimeout(event, record) ==
  errors' = IF event \in crawler.handlers /\ event # "fetchtimeout"
            THEN AddCopy(errors, record) ELSE errors

\* what a handler of initErrorHandlers records, if it is bound
Handle(event, record) ==
  errors' = IF event \in crawler.handlers THEN AddCopy(errors, record) ELSE errors

\* lines 252-254
OnFetch404(u) ==
  /\ Fails(u, "fetch404")
  /\ Raise("fetch404", u)
  /\ Handle("fetch404", Record("fetch-4xx/5xx", u, "404"))
  /\ Ended(u)

\* lines 255-257
OnFetchError(u) ==
  /\ Fails(u, "fetcherror")
  /\ Raise("fetcherror", u)
  /\ Handle("fetcherror", Record(FetchErrorKind("fetcherror"), u, "fetcherror"))
  /\ Ended(u)

\* lines 258-260
OnFetchDataError(u) ==
  /\ Fails(u, "fetchdataerror")
  /\ Raise("fetchdataerror", u)
  /\ Handle("fetchdataerror",
            Record(FetchErrorKind("fetchdataerror"), u, "fetchdataerror"))
  /\ Ended(u)

\* lines 261-263
OnGzipError(u) ==
  /\ Fails(u, "gziperror")
  /\ Raise("gziperror", u)
  /\ Handle("gziperror", Record(FetchErrorKind("gziperror"), u, "gziperror"))
  /\ Ended(u)

\* lines 264-266
OnFetchTimeout(u) ==
  /\ Fails(u, "fetchtimeout")
  /\ Raise("fetchtimeout", u)
  /\ Handle("fetchtimeout", Record(FetchErrorKind("fetchtimeout"), u, "fetchtimeout"))
  /\ Ended(u)

\* lines 269-271
OnFetchClientError(u) ==
  /\ Fails(u, "fetchclienterror")
  /\ Raise("fetchclienterror", u)
  /\ Handle("fetchclienterror", Record("client-error", u, "fetchclienterror"))
  /\ Ended(u)

\* lines 274-276: the queue refuses a URL
OnQueueError(u) ==
  /\ Running
  /\ u \in queued
  /\ "queueerror" \in Incidents(u)
  /\ failures < MaxFailures
  /\ Raise("queueerror", u)
  /\ Handle("queueerror", Record("queue-error", u, "queueerror"))
  /\ queued' = queued \ {u}
  /\ failures' = failures + 1
  /\ UNCHANGED << myUrl, config, pc, processVars, timerVars, crawler, spooled,
                  fetched, ledgerVars, logged, links, condCalls, discoveryVars,
                  completionVars >>

\* where the server sends a request of u
RedirectTarget(u) ==
  CASE u = RootPage -> ExtPage
    [] u = AboutPage -> SecretPage
    [] OTHER -> AboutPage

\* lines 335-337: the redirect is logged; the engine queues its target
OnFetchRedirect(u) ==
  /\ Fails(u, "fetchredirect")
  /\ Raise("fetchredirect", u)
  /\ LET q == queueURL(RedirectTarget(u), u,
                       [queued |-> queued,
                        logged |-> IF "fetchredirect" \in crawler.handlers
                                   THEN AddCopy(logged, Record("redirect", u, ""))
                                   ELSE logged,
                        condCalls |-> condCalls])
     IN /\ queued' = q.queued
        /\ logged' = q.logged
        /\ condCalls' = q.condCalls
  /\ spooled' = spooled \ {u}
  /\ fetched' = fetched \cup {u}
  /\ failures' = failures + 1
  /\ UNCHANGED << myUrl, config, pc, processVars, timerVars, crawler, ledgerVars,
                  errors, links, discoveryVars, completionVars >>

\* lines 341-343: robots.txt keeps the engine from requesting a queued URL
OnFetchDisallowed(u) ==
  /\ Running
  /\ u \in queued
  /\ "fetchdisallowed" \in Incidents(u)
  /\ failures < MaxFailures
  /\ Raise("fetchdisallowed", u)
  /\ logged' = IF "fetchdisallowed" \in crawler.handlers
               THEN AddCopy(logged, Record("disallowed", u, ""))
               ELSE logged
  /\ queued' = queued \ {u}
  /\ fetched' = fetched \cup {u}
  /\ failures' = failures + 1
  /\ UNCHANGED << myUrl, config, pc, processVars, timerVars, crawler, spooled,
                  ledgerVars, errors, links, condCalls, discoveryVars,
                  completionVars >>

\* lines 69-77: the interval timer prints the spooled items
SpoolReport ==
  /\ pc \in {"running", "complete", "startThrew"}
  /\ timers # {}
  /\ spoolReports < MaxSpoolReports
  /\ spoolReports' = spoolReports + 1
  /\ UNCHANGED << myUrl, config, pc, processVars, spooledReportTimer, timers,
                  crawler, queueVars, ledgerVars, recordVars, discoveryVars,
                  completionVars >>

(***************************************************************************)
(* The completion handler, lines 346-356.  Each step takes and gives the   *)
(* part of the state the handler works on.                                 *)
(***************************************************************************)
AtCompletion ==
  [timers |-> timers, errors |-> errors, findErrorsCalls |-> findErrorsCalls,
   reportCalls |-> reportCalls, reported |-> reported, exitCode |-> exitCode,
   calls |-> completeCalls]

\* lines 348-350
ClearSpoolTimer(h) ==
  IF spooledReportTimer # 0
  THEN [h EXCEPT !.timers = @ \ {spooledReportTimer},
                 !.calls = Append(@, "clearInterval")]
  ELSE h

\* line 353: hashProcessor.findErrors() records one error per broken fragment
FindErrors(h) ==
  LET broken == findErrors(expectedHashes, declaredHashes)
      records == {Record("broken-fragment", b[1], b[2]) : b \in broken}
  IN [h EXCEPT !.errors = @ (+) SetToBag(records),
               !.findErrorsCalls = @ + 1,
               !.calls = Append(@, "findErrors")]

\* a handler that reports and drops the code report() returns
ReportAndExitDropsCode(h) ==
  [h EXCEPT !.reported = h.errors,
            !.reportCalls = @ + 1,
            !.calls = @ \o <<"report", "exitCode">>]

\* line 355: process.exitCode = logger.report()
ReportAndExit(h) ==
  [h EXCEPT !.reported = h.errors,
            !.reportCalls = @ + 1,
            !.exitCode = report(h.errors),
            !.calls = @ \o <<"report", "exitCode">>]

\* a handler that looks for the broken fragments twice
completeHandlerFindErrorsTwice(h) ==
  ReportAndExit(FindErrors(FindErrors(ClearSpoolTimer(h))))

\* a handler that reports before it looks for the broken fragments
completeHandlerReportFirst(h) ==
  FindErrors(ReportAndExit(ClearSpoolTimer(h)))

completeHandler(h) == ReportAndExit(FindErrors(ClearSpoolTimer(h)))

\* the engine's completion event: nothing is queued and no request is open
Complete ==
  /\ Running
  /\ crawler.started
  /\ queued = {}
  /\ spooled = {}
  /\ LET h == IF "complete" \in crawler.handlers
              THEN completeHandler(AtCompletion) ELSE AtCompletion
     IN /\ timers' = h.timers
        /\ errors' = h.errors
        /\ findErrorsCalls' = h.findErrorsCalls
        /\ reportCalls' = h.reportCalls
        /\ reported' = h.reported
        /\ exitCode' = h.exitCode
        /\ completeCalls' = h.calls
  /\ pc' = "complete"
  /\ UNCHANGED << myUrl, config, tlsCiphers, envRejectUnauthorized, otherPc,
                  spooledReportTimer, spoolReports, crawler, queueVars,
                  ledgerVars, logged, links, condCalls, failures, raised,
                  discoveryVars >>

Setup ==
  \/ InitCrawler
  \/ SetConfigRootUrl
  \/ InitTls
  \/ NewSimplecrawler
  \/ InitAdditionalPaths
  \/ InitSpool
  \/ InjectCrawlerConfig
  \/ InitIncludeExcludePatterns
  \/ InitDiscoverResources
  \/ InitErrorHandlers
  \/ BindHandlers
  \/ Start

Next ==
  \/ Setup
  \/ \E u \in Pages : Spool(u)
  \/ \E u \in Pages : FetchComplete(u)
  \/ \E u \in Pages : OnFetch404(u)
  \/ \E u \in Pages : OnFetchError(u)
  \/ \E u \in Pages : OnFetchDataError(u)
  \/ \E u \in Pages : OnGzipError(u)
  \/ \E u \in Pages : OnFetchTimeout(u)
  \/ \E u \in Pages : OnFetchClientError(u)
  \/ \E u \in Pages : OnQueueError(u)
  \/ \E u \in Pages : OnFetchRedirect(u)
  \/ \E u \in Pages : OnFetchDisallowed(u)
  \/ SpoolReport
  \/ Complete

Spec == Init /\ [][Next]_vars

(***************************************************************************)
(* A second run in the same process: crawl() of another Crawler made with  *)
(* the same seed and an equal configuration.  The two runs have their own  *)
(* engine, ledgers and records; they share the module's timer handle, the  *)
(* interval timers and the process settings, which is all of the second    *)
(* run that is kept here.  crawl() runs to its end without interruption,   *)
(* and an event is handled only when no crawl() is under way.              *)
(***************************************************************************)
\* no crawl() of this run is under way
EventLoopFree == pc \in {"crawl", "threw", "startThrew", "running", "complete"}

\* lines 311-358 of the other run: initTls, initSpool and crawler.start()
OtherCrawl ==
  /\ EventLoopFree
  /\ otherPc = "idle"
  /\ ValidSeed(myUrl)
  /\ tlsCiphers' = IF ~config.strictCiphers THEN "ALL" ELSE tlsCiphers
  /\ envRejectUnauthorized' =
       IF config.simplecrawlerConfig.present
          /\ config.simplecrawlerConfig.ignoreInvalidSSL
       THEN "0" ELSE envRejectUnauthorized
  /\ IF config.reportSpoolInterval > 0
     THEN /\ spooledReportTimer' = NewTimer
          /\ timers' = timers \cup {NewTimer}
     ELSE UNCHANGED << spooledReportTimer, timers >>
  /\ otherPc' = IF config.simplecrawlerConfig.present /\ config.simplecrawlerConfig.start
                THEN "startThrew" ELSE "running"
  /\ UNCHANGED << myUrl, config, pc, exitCode, spoolReports, crawler, queueVars,
                  ledgerVars, recordVars, discoveryVars, completionVars >>

\* lines 346-356 of the other run: its completion handler stops the timer
\* the module's handle names and sets the exit code to its own report's
OtherComplete ==
  /\ EventLoopFree
  /\ otherPc = "running"
  /\ timers' = ClearSpoolTimer([timers |-> timers, calls |-> <<>>]).timers
  /\ exitCode' \in {0, 1}
  /\ otherPc' = "complete"
  /\ UNCHANGED << myUrl, config, pc, tlsCiphers, envRejectUnauthorized,
                  spooledReportTimer, spoolReports, crawler, queueVars, ledgerVars,
                  recordVars, discoveryVars, completionVars >>

NextTwoRuns ==
  \/ Next
  \/ OtherCrawl
  \/ OtherComplete

\* the runs looked at: a valid seed, a spool timer, no filter
TwoRunsConfigs ==
  {c \in CrawlConfigs :
     /\ c.reportSpoolInterval > 0
     /\ ~c.excludePatterns.present /\ ~c.includePatterns.present
     /\ c.titlePattern = ""}

TwoRunsInit == Init /\ myUrl = GoodSeed /\ config \in TwoRunsConfigs

SpecTwoRuns == TwoRunsInit /\ [][NextTwoRuns]_vars

(***************************************************************************)
(* What the pages fetched say, read from the markup itself.                *)
(***************************************************************************)
\* the expected hashes the anchors (outside pre, code and svg) of the
\* crawl-host HTML pages among done point at
RegisteredBy(done) ==
  UNION {{<<Resolve(e.href.target, p), e.href.frag>> :
            e \in {x \in Range(DocOf(p).body) :
                     /\ x.tag = "a" /\ x.hasHref /\ x.under = ""
                     /\ x.href.frag # ""}} :
         p \in {q \in done : IsHtml(ContentTypeOf(q)) /\ q.host = crawler.host}}

\* the ids the HTML pages among done declare
DeclaredBy(done) ==
  UNION {{<<p, e.id>> : e \in {x \in Range(DocOf(p).body) : x.id # ""}} :
         p \in {q \in done : IsHtml(ContentTypeOf(q))}}

\* some page among done registered the expected hash (u, f)
Registered(u, f, done) == <<u, f>> \in RegisteredBy(done)

\* the page at u is among done, is HTML and declares the id f
Declares(u, f, done) == <<u, f>> \in DeclaredBy(done)

BrokenRecord(u, f) == Record("broken-fragment", u, f)

\* the broken fragments a crawl that parsed the pages of done must report
BrokenOf(done) == RegisteredBy(done) \ DeclaredBy(done)

\* the broken fragments among the error records
BrokenRecorded(errs) ==
  {<<r.url, r.detail>> : r \in {x \in BagToSet(errs) : x.kind = "broken-fragment"}}

Completed == pc = "complete"

(***************************************************************************)
(* C1: after the completion event, an expected hash (u, f) that some page  *)
(* registered and that no fetched page at u declared (u fetched or not)    *)
(* has exactly one broken-fragment record; one that a fetched page at u    *)
(* declared has none.                                                      *)
(***************************************************************************)
C1_BrokenFragmentRecords ==
  Completed =>
    LET registered == RegisteredBy(processed)
        declared == DeclaredBy(processed)
    IN \A h \in registered \cup declared :
          /\ h \in registered \ declared
               => CopiesIn(BrokenRecord(h[1], h[2]), errors) = 1
          /\ h \in declared
               => CopiesIn(BrokenRecord(h[1], h[2]), errors) = 0

\* a completed crawl with a reference to a page never fetched, a reference
\* to a fetched page that lacks the id, and a reference that is declared
C1_Witness ==
  /\ Completed
  /\ \E u \in Pages \ fetched, f \in Fragments :
        Registered(u, f, processed) /\ CopiesIn(BrokenRecord(u, f), errors) = 1
  /\ \E u \in processed, f \in Fragments :
        /\ Registered(u, f, processed) /\ ~Declares(u, f, processed)
        /\ CopiesIn(BrokenRecord(u, f), errors) = 1
  /\ \E u \in Pages, f \in Fragments :
        Registered(u, f, processed) /\ Declares(u, f, processed)

(***************************************************************************)
(* C2: the broken fragments reported at completion are those of the set of *)
(* pages processed, whatever the order the pages were processed in.        *)
(***************************************************************************)
C2_OrderIndependent ==
  Completed => BrokenRecorded(errors) = BrokenOf(processed)

\* a completed crawl in which one target was processed before the page
\* that links to it and another one after it, with a broken fragment
C2_Witness ==
  /\ Completed
  /\ \E h \in lateRegistered : Declares(h[1], h[2], processed)
  /\ \E h \in expectedHashes \ lateRegistered :
        Declares(h[1], h[2], processed) /\ h \notin RegisteredBy({h[1]})
  /\ BrokenRecorded(errors) # {}

(***************************************************************************)
(* C3: the exit code is not set before the completion handler runs; the    *)
(* handler sets it to the value of report(), which is non-zero iff an      *)
(* error record (not an informational entry) was recorded.                 *)
(***************************************************************************)
C3_ExitCode ==
  /\ ~Completed => exitCode = -1
  /\ Completed =>
       /\ exitCode \in {0, 1}
       /\ exitCode # 0 <=> errors # EmptyBag

\* a completed crawl that parsed pages, ignored a URL, recorded no error
\* and exits with 0
C3_Witness ==
  /\ Completed
  /\ exitCode = 0
  /\ {RootPage, AboutPage} \subseteq processed
  /\ \E u \in Pages : BagIn(Record("ignored", u, ""), logged)

(***************************************************************************)
(* C4: findErrors() is called once, by the completion handler, when        *)
(* nothing is queued and no request is open; no page is requested, fetched *)
(* or handed to the discovery override after the call.                     *)
(***************************************************************************)
C4_FindErrorsOnceAtEnd ==
  /\ [](/\ findErrorsCalls = (IF Completed THEN 1 ELSE 0)
        /\ findErrorsCalls > 0 => queued = {} /\ spooled = {})
  /\ [][/\ findErrorsCalls' # findErrorsCalls => queued = {} /\ spooled = {}
        /\ findErrorsCalls > 0 => UNCHANGED << queued, spooled, fetched, processed >>
       ]_vars

\* a completed crawl that fetched several pages and one that failed
C4_Witness ==
  /\ Completed
  /\ findErrorsCalls = 1
  /\ Cardinality(processed) >= 3
  /\ fetched \ processed # {}

(***************************************************************************)
(* C5: the completion handler cancels the spool timer, calls findErrors(), *)
(* calls report() and sets the exit code, in this order; the report is     *)
(* made once, at completion, and holds every broken-fragment error.        *)
(***************************************************************************)
C5_CompletionOrder ==
  /\ ~Completed => reportCalls = 0 /\ completeCalls = <<>>
  /\ Completed =>
       /\ reportCalls = 1
       /\ completeCalls =
            (IF spooledReportTimer # 0 THEN <<"clearInterval">> ELSE <<>>)
              \o <<"findErrors", "report", "exitCode">>
       /\ spooledReportTimer \notin timers
       /\ reported = errors
       /\ \A h \in BrokenOf(processed) : BagIn(BrokenRecord(h[1], h[2]), reported)

\* a completed crawl with a spool timer and a broken fragment in the report
C5_Witness ==
  /\ Completed
  /\ spooledReportTimer # 0
  /\ BrokenOf(processed) # {}
  /\ \A h \in BrokenOf(processed) : BagIn(BrokenRecord(h[1], h[2]), reported)

(***************************************************************************)
(* C6: a URL that matches an exclude pattern, or that matches no include   *)
(* pattern when there are include patterns, is never requested, however it *)
(* came into the queue.  (The seed itself is left out of the statement.)   *)
(***************************************************************************)
HasPatterns(l) == l.present /\ l.list # <<>>

MatchesSome(l, u) ==
  \E i \in 1..Len(l.list) : PatternMatches(l.list[i], u, config.rootUrl)

\* what the configured lists say of u
Eligible(u) ==
  /\ ~HasPatterns(config.excludePatterns) \/ ~MatchesSome(config.excludePatterns, u)
  /\ ~HasPatterns(config.includePatterns) \/ MatchesSome(config.includePatterns, u)

C6_FilteredNeverFetched ==
  \A u \in (spooled \cup processed) \ {crawler.initialURL} : Eligible(u)

(***************************************************************************)
(* C7: a fetch condition is installed iff a list has a pattern; each call  *)
(* of it returns true exactly when no exclude pattern matches (or there is *)
(* none) and an include pattern matches (or there is none), and logs one   *)
(* 'ignored' entry exactly when it returns false.                          *)
(***************************************************************************)
BeforeInstall ==
  pc \in {"crawl", "threw", "setConfigRootUrl", "initTls", "newSimplecrawler",
          "initAdditionalPaths", "initSpool", "injectCrawlerConfig",
          "initIncludeExcludePatterns"}

C7_FetchCondition ==
  /\ crawler.conditions =
       (IF ~BeforeInstall /\ (HasPatterns(config.excludePatterns)
                                \/ HasPatterns(config.includePatterns))
        THEN 1 ELSE 0)
  /\ \A call \in BagToSet(condCalls) : call.result = Eligible(call.url)
  /\ \A u \in Pages :
       CopiesIn(Record("ignored", u, ""), logged)
         = CopiesIn([url |-> u, result |-> FALSE], condCalls)
  /\ crawler.conditions = 0 =>
       \A u \in Pages : ~BagIn(Record("ignored", u, ""), logged)

\* both lists have patterns; the condition let one URL pass, refused one
\* for the exclude list and one for the include list
C7_Witness ==
  /\ HasPatterns(config.excludePatterns) /\ HasPatterns(config.includePatterns)
  /\ \E call \in BagToSet(condCalls) : call.result
  /\ \E call \in BagToSet(condCalls) :
        ~call.result /\ MatchesSome(config.excludePatterns, call.url)
  /\ \E call \in BagToSet(condCalls) :
        /\ ~call.result
        /\ ~MatchesSome(config.excludePatterns, call.url)
        /\ BagIn(Record("ignored", call.url, ""), logged)

(***************************************************************************)
(* C8: the list the discovery override returns for a crawl-host HTML page  *)
(* holds the URLs the default discovery found that do not match mailto:,   *)
(* and nothing else.                                                       *)
(***************************************************************************)
C8_MailtoDropped ==
  Range(returned) = {u \in Range(discovered) : ~mailtoMatcher(u)}

(***************************************************************************)
(* C9: an href of a crawl-host page to a fragment of a page on another     *)
(* host registers the expected hash; at completion it has no error if the  *)
(* other page was fetched as HTML and declares the id, and one error if    *)
(* the other page was never fetched.                                       *)
(***************************************************************************)
\* the off-domain references of the crawl-host pages parsed so far
OffDomainRefs == {h \in RegisteredBy(processed) : h[1].host # crawler.host}

C9_CrossDomainFragments ==
  /\ OffDomainRefs \subseteq expectedHashes
  /\ Completed =>
       \A h \in OffDomainRefs :
          /\ Declares(h[1], h[2], processed)
               => ~BagIn(BrokenRecord(h[1], h[2]), errors)
          /\ h[1] \notin fetched
               => CopiesIn(BrokenRecord(h[1], h[2]), errors) = 1

\* a completed crawl that fetched the other host's page before the page
\* that refers to its fragment, and reports no error for the fragment
C9_Witness ==
  /\ Completed
  /\ <<ExtPage, "frag">> \in OffDomainRefs \cap lateRegistered
  /\ Declares(ExtPage, "frag", processed)
  /\ ~BagIn(BrokenRecord(ExtPage, "frag"), errors)

(***************************************************************************)
(* C10: with a seed that lacks a protocol, a host or a path, crawl() ends  *)
(* in an error and nothing is set up: no root URL, no TLS or environment   *)
(* setting, no engine, no queued path, no timer, no handler, no start.     *)
(***************************************************************************)
SeedLacksPart == myUrl.protocol = "" \/ myUrl.hostname = "" \/ myUrl.path = ""

C10_InvalidSeedFailsFast ==
  SeedLacksPart =>
    /\ pc \in {"crawl", "threw"}
    /\ config.rootUrl = EmptyUrl
    /\ tlsCiphers = "default"
    /\ envRejectUnauthorized = "unset"
    /\ crawler = NoCrawler
    /\ queued = {} /\ spooled = {} /\ fetched = {}
    /\ spooledReportTimer = 0 /\ timers = {}
    /\ exitCode = -1

\* crawl() has thrown for a seed without a path, under a configuration
\* that asks for every set-up effect
C10_Witness ==
  /\ pc = "threw"
  /\ myUrl.path = "" /\ myUrl.protocol # "" /\ myUrl.hostname # ""
  /\ ~config.strictCiphers
  /\ config.simplecrawlerConfig.present /\ config.simplecrawlerConfig.ignoreInvalidSSL
  /\ config.additionalPaths.present
  /\ config.reportSpoolInterval > 0

(***************************************************************************)
(* C11: every fetch404, fetcherror, fetchdataerror, gziperror,             *)
(* fetchtimeout, fetchclienterror and queueerror event adds exactly one    *)
(* error record, of the one kind of its event (fetch404 with the status    *)
(* code 404); the event leaves the crawl running and makes no report;      *)
(* after it the engine can still open a request, has a request open, or    *)
(* raises its completion event, and the completion reports once; the       *)
(* fetched, redirect and disallowed events add no such record.             *)
(***************************************************************************)
TransportKinds ==
  {"fetch-4xx/5xx", "fetch-error", "fetch-timeout", "gzip-error", "client-error",
   "queue-error"}

\* the record the taxonomy gives for an event of the request of u
RecordOfEvent(event, u) ==
  CASE event = "fetch404" -> [kind |-> "fetch-4xx/5xx", url |-> u, detail |-> "404"]
    [] event = "fetcherror" -> [kind |-> "fetch-error", url |-> u, detail |-> event]
    [] event = "fetchdataerror" -> [kind |-> "fetch-error", url |-> u, detail |-> event]
    [] event = "gziperror" -> [kind |-> "gzip-error", url |-> u, detail |-> event]
    [] event = "fetchtimeout" -> [kind |-> "fetch-timeout", url |-> u, detail |-> event]
    [] event = "fetchclienterror" -> [kind |-> "client-error", url |-> u, detail |-> event]
    [] OTHER -> [kind |-> "queue-error", url |-> u, detail |-> event]

FailureEvents ==
  {"fetch404", "fetcherror", "fetchdataerror", "gziperror", "fetchtimeout",
   "fetchclienterror", "queueerror"}

\* the failure events among the events raised so far
FailuresRaised(r) == {e \in BagToSet(r) : e.event \in FailureEvents}

\* how many records of the transport and queue kinds errs holds
TransportCount(errs) ==
  BagCardinality([x \in {y \in BagToSet(errs) : y.kind \in TransportKinds} |-> errs[x]])

\* how many failure events r holds
FailureCount(r) == BagCardinality([e \in FailuresRaised(r) |-> r[e]])

C11_FailuresRecordedNotFatal ==
  /\ [](/\ \A e \in FailuresRaised(raised) :
             CopiesIn(RecordOfEvent(e.event, e.url), errors) = CopiesIn(e, raised)
        /\ TransportCount(errors) = FailureCount(raised)
        /\ \A x \in BagToSet(errors) :
             x.kind \in TransportKinds \cup {"title-mismatch", "broken-fragment"}
        /\ raised # EmptyBag => pc \in {"running", "complete"}
        /\ FailuresRaised(raised) # {} /\ ~Completed =>
             \/ \E u \in queued : ENABLED Spool(u)
             \/ spooled # {}
             \/ ENABLED Complete
        /\ reportCalls = (IF Completed THEN 1 ELSE 0))
  /\ [][/\ raised' # raised =>
             /\ pc' = pc /\ reportCalls' = reportCalls /\ exitCode' = exitCode
             /\ BagCardinality(errors') =
                  BagCardinality(errors)
                    + (IF FailureCount(raised') > FailureCount(raised) THEN 1 ELSE 0)
        /\ raised' = raised /\ ~Completed' => TransportCount(errors') = TransportCount(errors)
       ]_vars

\* a completed crawl in which a page gave 404 and other pages were parsed
\* afterwards; the report holds the one record with the status code
C11_Witness ==
  /\ Completed
  /\ \E e \in FailuresRaised(raised) :
        /\ e.event = "fetch404"
        /\ CopiesIn([kind |-> "fetch-4xx/5xx", url |-> e.url, detail |-> "404"], reported) = 1
  /\ Cardinality(processed) >= 2
  /\ reportCalls = 1
  /\ exitCode = 1

(***************************************************************************)
(* C12: a spool timer is started only if reportSpoolInterval > 0, and      *)
(* once the run has ended, by the completion event or by a set-up step     *)
(* that threw, no spool timer is active.                                   *)
(***************************************************************************)
\* crawl() threw, or the engine raised its completion event
RunEnded == pc \in {"threw", "startThrew", "complete"}

C12_TimerCancelledOnEveryEnd ==
  /\ config.reportSpoolInterval = 0 => spooledReportTimer = 0 /\ timers = {}
  /\ RunEnded => timers = {}

(***************************************************************************)
(* C13: a page has one title-mismatch error if it was parsed as an HTML    *)
(* page of the crawl host while a title pattern is configured that its     *)
(* title does not match, and none otherwise (the title matches, no pattern *)
(* is configured, the page is of another host or is not HTML); a run with  *)
(* a title-mismatch error ends with a non-zero exit code.                  *)
(***************************************************************************)
\* the titles of the web that begin with Home
TitleBeginsWithHome(u) == DocOf(u).title \in {"Home page", "Home secret"}

\* how many title-mismatch records errs holds for the page at u
TitleErrors(u, errs) ==
  BagCardinality([x \in {y \in BagToSet(errs) :
                           y.kind = "title-mismatch" /\ y.url = u} |-> errs[x]])

C13_TitleMismatch ==
  /\ \A u \in Pages :
       TitleErrors(u, errors) =
         (IF /\ u \in processed
             /\ ContentTypeOf(u)[1] = "text/html"
             /\ u.host = myUrl.hostname
             /\ config.titlePattern = "^Home"
             /\ ~TitleBeginsWithHome(u)
          THEN 1 ELSE 0)
  /\ Completed /\ (\E u \in Pages : TitleErrors(u, errors) > 0) => exitCode = 1

\* a completed crawl under /^Home/ that parsed every page: one error for
\* the seed page titled Welcome, none for the pages titled Home ..., none
\* for the other host's page and the text/plain page titled Welcome
C13_Witness ==
  /\ Completed
  /\ config.titlePattern = "^Home"
  /\ processed = Pages
  /\ CopiesIn([kind |-> "title-mismatch", url |-> RootPage, detail |-> "Welcome"],
              errors) = 1
  /\ TitleErrors(AboutPage, errors) = 0
  /\ TitleErrors(ExtPage, errors) = 0
  /\ TitleErrors(DocsPage, errors) = 0
  /\ exitCode = 1

(***************************************************************************)
(* C14: the list the discovery override returns for a page holds no URL    *)
(* twice, and a second invocation for the same document and queue item,    *)
(* made after the first, returns a list of the same URLs whatever order    *)
(* the shuffle gives it.                                                   *)
(***************************************************************************)
NoDuplicates(list) == \A i, j \in 1..Len(list) : list[i] = list[j] => i = j

C14_DiscoveryDeterministic ==
  lastProcessed # EmptyUrl =>
    LET again == discoverResources(DocOf(lastProcessed), QueueItem(lastProcessed),
                                   Ledgers)
    IN /\ NoDuplicates(returned)
       /\ \A second \in Shuffles(again.list) :
             /\ Range(second) = Range(returned)
             /\ Len(second) = Len(returned)
             /\ NoDuplicates(second)

\* the override has returned three URLs, in another order than the default
\* discovery found them, for a page on which one of them occurs twice
C14_Witness ==
  /\ lastProcessed = SecretPage
  /\ Len(discovered) > Len(returned)
  /\ Len(returned) >= 3
  /\ NoDuplicates(returned)
  /\ \E i \in 1..Len(returned) : returned[i] # uniq(discovered)[i]

(***************************************************************************)
(* C15: when the override is called for a document whose content type does *)
(* not start with text/html it returns the empty list and changes neither  *)
(* ledger nor the error records; nothing is queued for it.                 *)
(***************************************************************************)
C15_NonHtmlUntouched ==
  [][\A u \in processed' \ processed :
       ContentTypeOf(u)[1] # "text/html" =>
         /\ returned' = <<>>
         /\ UNCHANGED << expectedHashes, declaredHashes, errors, queued, links >>
    ]_vars

\* the text/plain document, whose markup has an id another page refers to,
\* links and a title the pattern does not match, was handed to the override
\* last: the id is not declared and nothing of it was recorded
C15_Witness ==
  /\ lastProcessed = DocsPage
  /\ returned = <<>>
  /\ config.titlePattern = "^Home"
  /\ TitleErrors(DocsPage, errors) = 0
  /\ <<DocsPage, "sec">> \in expectedHashes \ declaredHashes
  /\ <<AboutPage, "plain">> \notin expectedHashes

(***************************************************************************)
(* C16: every id of every HTML page handed to the override is in the       *)
(* declared-hash ledger, whatever the page's host; for an HTML page of     *)
(* another host the override returns the empty list and no link of the     *)
(* page is queued.                                                         *)
(***************************************************************************)
\* the ids the markup of the page at u declares
IdsOf(u) == {<<u, e.id>> : e \in {x \in Range(DocOf(u).body) : x.id # ""}}

C16_DeclaredOnEveryHost ==
  /\ [](\A u \in processed :
          ContentTypeOf(u)[1] = "text/html" => IdsOf(u) \subseteq declaredHashes)
  /\ [][\A u \in processed' \ processed :
          ContentTypeOf(u)[1] = "text/html" /\ u.host # myUrl.hostname =>
            /\ returned' = <<>>
            /\ UNCHANGED << queued, links >>
       ]_vars

\* the other host's page was reached by a redirect of the seed and parsed:
\* its id is declared, and the crawl-host page it links to is not queued
C16_Witness ==
  /\ lastProcessed = ExtPage
  /\ <<ExtPage, "frag">> \in declaredHashes
  /\ returned = <<>>
  /\ AboutPage \notin queued \cup spooled \cup fetched
  /\ Completed

(***************************************************************************)
(* C17: when the override parses an HTML page of the crawl host, an anchor *)
(* that lies inside a pre, code or svg element adds no entry to the        *)
(* expected-hash ledger and its target is not in the returned list, unless *)
(* an anchor outside these elements has the same reference or target.      *)
(***************************************************************************)
Pruned == {"pre", "code", "svg"}

\* the a[href] elements of the page at u inside and outside pre, code, svg
HiddenAnchors(u) ==
  {e \in Range(DocOf(u).body) : e.tag = "a" /\ e.hasHref /\ e.under \in Pruned}
VisibleAnchors(u) ==
  {e \in Range(DocOf(u).body) : e.tag = "a" /\ e.hasHref /\ e.under \notin Pruned}

C17_PrunedBeforeDiscovery ==
  [][\A u \in processed' \ processed :
       ContentTypeOf(u)[1] = "text/html" /\ u.host = myUrl.hostname =>
         \A e \in HiddenAnchors(u) :
            LET t == Resolve(e.href.target, u)
            IN /\ (\A v \in VisibleAnchors(u) : Resolve(v.href.target, u) # t)
                    => t \notin Range(returned')
               /\ (\A v \in VisibleAnchors(u) :
                      Resolve(v.href.target, u) # t \/ v.href.frag # e.href.frag)
                    => <<t, e.href.frag>> \notin expectedHashes' \ expectedHashes
    ]_vars

\* the seed page was parsed: its references outside pre and code are in the
\* ledger and its links in the list, but not the two references inside pre
\* and code, nor the page that only the anchor inside code links to
C17_Witness ==
  /\ lastProcessed = RootPage
  /\ <<AboutPage, "team">> \in expectedHashes
  /\ <<AboutPage, "inpre">> \notin expectedHashes
  /\ <<DocsPage, "incode">> \notin expectedHashes
  /\ AboutPage \in Range(returned)
  /\ DocsPage \notin Range(returned)
  /\ DocsPage \notin queued \cup spooled \cup fetched

(***************************************************************************)
(* C18: an id inside a pre, code or svg element of a parsed HTML page is   *)
(* in the declared-hash ledger, so a reference to it has no                *)
(* broken-fragment error at completion; a reference made by an anchor      *)
(* inside such an element is in the expected-hash ledger only if an anchor *)
(* outside these elements makes it too.                                    *)
(***************************************************************************)
\* the ids the page at u declares inside pre, code and svg
HiddenIds(u) ==
  {<<u, e.id>> : e \in {x \in Range(DocOf(u).body) : x.id # "" /\ x.under \in Pruned}}

\* the references the anchors of the page at u inside pre, code and svg make
HiddenRefs(u) ==
  {<<Resolve(e.href.target, u), e.href.frag>> :
     e \in {x \in HiddenAnchors(u) : x.href.frag # ""}}

C18_DeclaredBeforePruning ==
  \A u \in processed :
     ContentTypeOf(u)[1] = "text/html" =>
       /\ HiddenIds(u) \subseteq declaredHashes
       /\ Completed =>
            \A h \in HiddenIds(u) : ~BagIn(BrokenRecord(h[1], h[2]), errors)
       /\ \A h \in HiddenRefs(u) :
            h \in expectedHashes => h \in RegisteredBy(processed)

\* a completed crawl: the seed page refers to an id that the about page
\* declares inside a code element, and no error is reported for it; the
\* reference the about page makes inside an svg element is not expected
C18_Witness ==
  /\ Completed
  /\ {RootPage, AboutPage} \subseteq processed
  /\ <<AboutPage, "ghost">> \in HiddenIds(AboutPage) \cap expectedHashes
  /\ ~BagIn(BrokenRecord(AboutPage, "ghost"), errors)
  /\ <<ExtPage, "insvg">> \in HiddenRefs(AboutPage) \ expectedHashes

(***************************************************************************)
(* C19: the expected-hash ledger changes only when the override parses an  *)
(* HTML page of the crawl host, and holds only references that anchors of  *)
(* such pages make; a reference that only a page of another host or a      *)
(* document that is not HTML makes is never reported as broken.            *)
(***************************************************************************)
C19_ExpectedFromCrawlHostOnly ==
  /\ [](/\ expectedHashes \subseteq RegisteredBy(processed)
        /\ BrokenRecorded(errors) \subseteq RegisteredBy(processed))
  /\ [][expectedHashes' # expectedHashes =>
          \E u \in processed' \ processed :
             ContentTypeOf(u)[1] = "text/html" /\ u.host = myUrl.hostname
       ]_vars

\* a completed crawl that parsed the other host's page and the text/plain
\* document, which refer to fragments the about page lacks: neither
\* reference is expected or reported, while a crawl-host page's is
C19_Witness ==
  /\ Completed
  /\ {AboutPage, ExtPage, DocsPage} \subseteq processed
  /\ <<AboutPage, "offsite">> \notin expectedHashes \cup declaredHashes
  /\ <<AboutPage, "plain">> \notin expectedHashes \cup declaredHashes
  /\ ~BagIn(BrokenRecord(AboutPage, "offsite"), errors)
  /\ ~BagIn(BrokenRecord(AboutPage, "plain"), errors)
  /\ BagIn(BrokenRecord(AboutPage, "missing"), errors)

(***************************************************************************)
(* C20: two runs of one process that both have a spool timer: when both    *)
(* have completed, no spool timer is active.                               *)
(***************************************************************************)
BothCompleted == Completed /\ otherPc = "complete"

C20_RunsDoNotInterfere ==
  BothCompleted /\ config.reportSpoolInterval > 0 => timers = {}

====
